---- MODULE Spec2Model ----
(***************************************************************************)
(* GLFWDriver::AudioPlayer of example/ebiten/glfwdriver.{h,cpp}: one       *)
(* player, its playback thread (Loop), one producer thread calling Write,  *)
(* and one controller thread calling Close, Pause, Play, IsWritable and    *)
(* GetUnplayedBufferSize.  The mutex and the condition variable are        *)
(* modelled explicitly: a critical section starts with a step that takes   *)
(* mutex_, and cond_ is the set of threads blocked in cond_.wait.          *)
(***************************************************************************)
EXTENDS Integers, FiniteSets, Sequences, TLC

\* Largest length passed to Write, and the most bytes the producer passes to
\* Write in one behaviour.
MaxLen == 3
MaxWritten == 5

Producer == "producer"
Controller == "controller"
LoopThread == "loop"
NoThread == "none"
Threads == {Producer, Controller, LoopThread}

\* Values passed to SetVolume.
Volumes == {0, 1}

\* (sample_rate, channel_num, bit_depth_in_bytes) passed to OpenAudio.
Formats == {<<5, 1, 1>>, <<3, 2, 1>>, <<1, 1, 1>>}

VARIABLES
  sample_rate_,         \* const int sample_rate_
  channel_num_,         \* const int channel_num_
  bit_depth_in_bytes_,  \* const int bit_depth_in_bytes_
  buffer_size_,         \* const int buffer_size_
  ready_to_play_,       \* int ready_to_play_
  paused_,              \* bool paused_
  closed_,              \* bool closed_
  mutex_,               \* owner of std::mutex mutex_, or NoThread
  cond_,                \* threads blocked in cond_.wait
  pc,                   \* position of each thread
  length,               \* argument of the producer's current Write (else 0)
  immediately,          \* argument of the controller's current Close (else FALSE)
  op,                   \* the controller's current (or last) operation
  ret,                  \* value returned by the controller's last query
  written,              \* history: bytes added by Write so far
  drained,              \* history: bytes removed by Loop so far
  wret,                 \* history: how the last Write ended
  waited,               \* history: the current/last Write blocked in wait
  reclosed,             \* history: Close ran on an already closed player
  last,                 \* history: the last change of ready_to_play_
  duration,             \* the sleep_for argument while Loop sleeps
  volume_,              \* double volume_
  dtor                  \* position of ~AudioPlayer

format == <<sample_rate_, channel_num_, bit_depth_in_bytes_, buffer_size_>>
flags == <<paused_, closed_>>
args == <<length, immediately, op, ret>>
hist == <<written, drained, wret, waited, reclosed>>
more == <<last, duration, volume_, dtor>>
vars == <<format, ready_to_play_, flags, mutex_, cond_, pc, args, hist, more>>

----------------------------------------------------------------------------
\* GLFWDriver's audio fields: their defaults, and after OpenAudio.
DriverDefault ==
  [sample_rate |-> 0, channel_num |-> 0, bit_depth_in_bytes |-> 0,
   buffer_size |-> 0]

OpenAudio(sample_rate, channel_num, bit_depth_in_bytes) ==
  [sample_rate |-> sample_rate, channel_num |-> channel_num,
   bit_depth_in_bytes |-> bit_depth_in_bytes,
   buffer_size |-> (sample_rate * channel_num * bit_depth_in_bytes) \div 2]

\* CreateAudioPlayer + the constructor: fields copied from the driver, the
\* member initialisers of the header, and the playback thread started.
CreateAudioPlayer(driver) ==
  /\ sample_rate_ = driver.sample_rate
  /\ channel_num_ = driver.channel_num
  /\ bit_depth_in_bytes_ = driver.bit_depth_in_bytes
  /\ buffer_size_ = driver.buffer_size
  /\ ready_to_play_ = 0
  /\ paused_ = FALSE
  /\ closed_ = FALSE
  /\ mutex_ = NoThread
  /\ cond_ = {}
  /\ pc = [t \in Threads |-> IF t = LoopThread THEN "l_lock" ELSE "idle"]

\* No value returned yet: the controller's query results are cleared by each
\* call.
NoRet == [writable |-> FALSE, size |-> 0, volume |-> 0]

\* double volume_ = 1.0
DefaultVolume == 1

\* Loop is not in sleep_for.
NoDuration == <<0, 0, 0>>

Init ==
  /\ \E driver \in {DriverDefault} \cup {OpenAudio(f[1], f[2], f[3]) : f \in Formats} :
       CreateAudioPlayer(driver)
  /\ length = 0
  /\ immediately = FALSE
  /\ op = "none"
  /\ ret = NoRet
  /\ written = 0
  /\ drained = 0
  /\ wret = "none"
  /\ waited = FALSE
  /\ reclosed = FALSE
  /\ last = "none"
  /\ duration = NoDuration
  /\ volume_ = DefaultVolume
  /\ dtor = "none"

----------------------------------------------------------------------------
\* Faulty variants of the definitions below, used to check that the
\* properties depend on them.
IsWritableImplIgnoresPaused == ready_to_play_ < buffer_size_ \/ closed_

IsWritableImplOffByOne == (ready_to_play_ <= buffer_size_ \/ closed_) /\ ~paused_

LoopPredIgnoresLevel == ~paused_

LoopPredStrict == (ready_to_play_ > buffer_size_ \/ closed_) /\ ~paused_

LoopPredIgnoresPaused == ready_to_play_ >= buffer_size_ \/ closed_

\* The two wait predicates.
IsWritableImpl == (ready_to_play_ < buffer_size_ \/ closed_) /\ ~paused_

LoopPred == (ready_to_play_ >= buffer_size_ \/ closed_) /\ ~paused_

\* Where a thread woken from cond_.wait continues: it re-acquires the mutex.
Relock(t) == IF t = Producer THEN "w_relock" ELSE "l_relock"

\* cond_.notify_all() by thread self, which then continues at next.
NotifyAll(self, next) ==
  /\ cond_' = {}
  /\ pc' = [t \in Threads |-> IF t = self THEN next
                              ELSE IF t \in cond_ THEN Relock(t) ELSE pc[t]]

\* cond_.notify_one() by thread self, which then continues at next.
NotifyOne(self, next) ==
  IF cond_ = {}
  THEN /\ cond_' = cond_
       /\ pc' = [pc EXCEPT ![self] = next]
  ELSE \E w \in cond_ :
         /\ cond_' = cond_ \ {w}
         /\ pc' = [pc EXCEPT ![self] = next, ![w] = Relock(w)]

\* A spurious wake-up, which std::condition_variable::wait permits.
SpuriousWakeup(t) ==
  /\ t \in cond_
  /\ cond_' = cond_ \ {t}
  /\ pc' = [pc EXCEPT ![t] = Relock(t)]
  /\ UNCHANGED <<format, more, ready_to_play_, flags, mutex_, args, hist>>

----------------------------------------------------------------------------
\* Close(immediately): the lock_guard block, then notify_all.
Close(imm) ==
  /\ pc[Controller] = "idle"
  /\ mutex_ = NoThread
  /\ mutex_' = Controller
  /\ immediately' = imm
  /\ op' = "Close"
  /\ ret' = NoRet
  /\ pc' = [pc EXCEPT ![Controller] = "close_cs"]
  /\ UNCHANGED <<format, more, ready_to_play_, flags, cond_, length, hist>>

\* Faulty: Close(true) also discards the pending bytes.
CloseBodyFlush ==
  /\ pc[Controller] = "close_cs"
  /\ paused_' = FALSE
  /\ closed_' = TRUE
  /\ ready_to_play_' = IF immediately THEN 0 ELSE ready_to_play_
  /\ mutex_' = NoThread
  /\ reclosed' = (reclosed \/ closed_)
  /\ pc' = [pc EXCEPT ![Controller] = "close_notify"]
  /\ UNCHANGED <<format, more, cond_, args, written, drained, wret, waited>>

\* Faulty: Close that leaves paused_ as it is.
CloseBodyKeepsPaused ==
  /\ pc[Controller] = "close_cs"
  /\ closed_' = TRUE
  /\ mutex_' = NoThread
  /\ reclosed' = (reclosed \/ closed_)
  /\ pc' = [pc EXCEPT ![Controller] = "close_notify"]
  /\ UNCHANGED <<format, more, ready_to_play_, paused_, cond_, args, written, drained,
                 wret, waited>>

CloseBody ==
  /\ pc[Controller] = "close_cs"
  /\ paused_' = FALSE
  /\ closed_' = TRUE
  /\ mutex_' = NoThread
  /\ reclosed' = (reclosed \/ closed_)
  /\ pc' = [pc EXCEPT ![Controller] = "close_notify"]
  /\ UNCHANGED <<format, more, ready_to_play_, cond_, args, written, drained, wret,
                 waited>>

\* Faulty: Close returns without notify_all.
CloseNoNotify ==
  /\ pc[Controller] = "close_notify"
  /\ pc' = [pc EXCEPT ![Controller] = "idle"]
  /\ immediately' = FALSE
  /\ UNCHANGED <<format, more, ready_to_play_, flags, mutex_, cond_, length, op, ret, hist>>

CloseNotify ==
  /\ pc[Controller] = "close_notify"
  /\ NotifyAll(Controller, "idle")
  /\ immediately' = FALSE
  /\ UNCHANGED <<format, more, ready_to_play_, flags, mutex_, length, op, ret, hist>>

\* Pause(): returns inside the lock when closed, else sets paused_ and
\* notifies all.
Pause ==
  /\ pc[Controller] = "idle"
  /\ mutex_ = NoThread
  /\ mutex_' = Controller
  /\ op' = "Pause"
  /\ ret' = NoRet
  /\ pc' = [pc EXCEPT ![Controller] = "pause_cs"]
  /\ UNCHANGED <<format, more, ready_to_play_, flags, cond_, length, immediately, hist>>

\* Faulty: Pause without the closed_ check.
PauseBodyNoClosedCheck ==
  /\ pc[Controller] = "pause_cs"
  /\ mutex_' = NoThread
  /\ paused_' = TRUE
  /\ pc' = [pc EXCEPT ![Controller] = "pause_notify"]
  /\ UNCHANGED <<format, more, ready_to_play_, closed_, cond_, args, hist>>

PauseBody ==
  /\ pc[Controller] = "pause_cs"
  /\ mutex_' = NoThread
  /\ IF closed_
     THEN /\ pc' = [pc EXCEPT ![Controller] = "idle"]
          /\ UNCHANGED paused_
     ELSE /\ paused_' = TRUE
          /\ pc' = [pc EXCEPT ![Controller] = "pause_notify"]
  /\ UNCHANGED <<format, more, ready_to_play_, closed_, cond_, args, hist>>

PauseNotify ==
  /\ pc[Controller] = "pause_notify"
  /\ NotifyAll(Controller, "idle")
  /\ UNCHANGED <<format, more, ready_to_play_, flags, mutex_, args, hist>>

\* Play(): returns inside the lock when closed, else clears paused_ and
\* notifies all.
Play ==
  /\ pc[Controller] = "idle"
  /\ mutex_ = NoThread
  /\ mutex_' = Controller
  /\ op' = "Play"
  /\ ret' = NoRet
  /\ pc' = [pc EXCEPT ![Controller] = "play_cs"]
  /\ UNCHANGED <<format, more, ready_to_play_, flags, cond_, length, immediately, hist>>

PlayBody ==
  /\ pc[Controller] = "play_cs"
  /\ mutex_' = NoThread
  /\ IF closed_
     THEN /\ pc' = [pc EXCEPT ![Controller] = "idle"]
          /\ UNCHANGED paused_
     ELSE /\ paused_' = FALSE
          /\ pc' = [pc EXCEPT ![Controller] = "play_notify"]
  /\ UNCHANGED <<format, more, ready_to_play_, closed_, cond_, args, hist>>

\* Faulty: Play returns without notify_all.
PlayNoNotify ==
  /\ pc[Controller] = "play_notify"
  /\ pc' = [pc EXCEPT ![Controller] = "idle"]
  /\ UNCHANGED <<format, more, ready_to_play_, flags, mutex_, cond_, args, hist>>

PlayNotify ==
  /\ pc[Controller] = "play_notify"
  /\ NotifyAll(Controller, "idle")
  /\ UNCHANGED <<format, more, ready_to_play_, flags, mutex_, args, hist>>

\* IsWritable(): lock_guard, return IsWritableImpl().
IsWritable ==
  /\ pc[Controller] = "idle"
  /\ mutex_ = NoThread
  /\ mutex_' = Controller
  /\ op' = "IsWritable"
  /\ ret' = NoRet
  /\ pc' = [pc EXCEPT ![Controller] = "iw_cs"]
  /\ UNCHANGED <<format, more, ready_to_play_, flags, cond_, length, immediately, hist>>

IsWritableReturn ==
  /\ pc[Controller] = "iw_cs"
  /\ ret' = [ret EXCEPT !.writable = IsWritableImpl]
  /\ mutex_' = NoThread
  /\ pc' = [pc EXCEPT ![Controller] = "idle"]
  /\ UNCHANGED <<format, more, ready_to_play_, flags, cond_, length, immediately, op, hist>>

\* GetUnplayedBufferSize(): lock_guard, return ready_to_play_.
GetUnplayedBufferSize ==
  /\ pc[Controller] = "idle"
  /\ mutex_ = NoThread
  /\ mutex_' = Controller
  /\ op' = "GetUnplayedBufferSize"
  /\ ret' = NoRet
  /\ pc' = [pc EXCEPT ![Controller] = "gu_cs"]
  /\ UNCHANGED <<format, more, ready_to_play_, flags, cond_, length, immediately, hist>>

GetUnplayedBufferSizeReturn ==
  /\ pc[Controller] = "gu_cs"
  /\ ret' = [ret EXCEPT !.size = ready_to_play_]
  /\ mutex_' = NoThread
  /\ pc' = [pc EXCEPT ![Controller] = "idle"]
  /\ UNCHANGED <<format, more, ready_to_play_, flags, cond_, length, immediately, op, hist>>

----------------------------------------------------------------------------
\* Write(data, len): unique_lock, cond_.wait(lock, IsWritableImpl), the
\* closed_ check, the addition, unlock, notify_one.
Write(len) ==
  /\ pc[Producer] = "idle"
  /\ written + len <= MaxWritten
  /\ mutex_ = NoThread
  /\ mutex_' = Producer
  /\ length' = len
  /\ wret' = "none"
  /\ waited' = FALSE
  /\ pc' = [pc EXCEPT ![Producer] = "w_cs"]
  /\ UNCHANGED <<format, more, ready_to_play_, flags, cond_, immediately, op, ret,
                 written, drained, reclosed>>

\* The wait predicate is false: release the mutex and block.
WriteWait ==
  /\ pc[Producer] = "w_cs"
  /\ ~IsWritableImpl
  /\ mutex_' = NoThread
  /\ cond_' = cond_ \cup {Producer}
  /\ waited' = TRUE
  /\ pc' = [pc EXCEPT ![Producer] = "w_wait"]
  /\ UNCHANGED <<format, more, ready_to_play_, flags, args, written, drained,
                 wret, reclosed>>

\* Woken: re-acquire the mutex and evaluate the predicate again.
WriteRelock ==
  /\ pc[Producer] = "w_relock"
  /\ mutex_ = NoThread
  /\ mutex_' = Producer
  /\ pc' = [pc EXCEPT ![Producer] = "w_cs"]
  /\ UNCHANGED <<format, more, ready_to_play_, flags, cond_, args, hist>>

\* Faulty: Write without the closed_ check.
WriteBodyNoClosedCheck ==
  /\ pc[Producer] = "w_cs"
  /\ IsWritableImpl
  /\ mutex_' = NoThread
  /\ ready_to_play_' = ready_to_play_ + length
  /\ written' = written + length
  /\ wret' = "added"
  /\ last' = "write"
  /\ pc' = [pc EXCEPT ![Producer] = "w_notify"]
  /\ UNCHANGED <<format, duration, volume_, dtor, flags, cond_, args, drained, waited,
                 reclosed>>

\* Faulty: Write that does not wait for IsWritableImpl.
WriteBodyNoWait ==
  /\ pc[Producer] = "w_cs"
  /\ mutex_' = NoThread
  /\ IF closed_
     THEN /\ wret' = "closed"
          /\ length' = 0
          /\ pc' = [pc EXCEPT ![Producer] = "idle"]
          /\ UNCHANGED <<ready_to_play_, written, last>>
     ELSE /\ ready_to_play_' = ready_to_play_ + length
          /\ written' = written + length
          /\ wret' = "added"
          /\ last' = "write"
          /\ pc' = [pc EXCEPT ![Producer] = "w_notify"]
          /\ UNCHANGED length
  /\ UNCHANGED <<format, duration, volume_, dtor, flags, cond_, immediately, op, ret,
                 drained, waited, reclosed>>

\* The wait predicate is true: return if closed, else add length.
WriteBody ==
  /\ pc[Producer] = "w_cs"
  /\ IsWritableImpl
  /\ mutex_' = NoThread
  /\ IF closed_
     THEN /\ wret' = "closed"
          /\ length' = 0
          /\ pc' = [pc EXCEPT ![Producer] = "idle"]
          /\ UNCHANGED <<ready_to_play_, written, last>>
     ELSE /\ ready_to_play_' = ready_to_play_ + length
          /\ written' = written + length
          /\ wret' = "added"
          /\ last' = "write"
          /\ pc' = [pc EXCEPT ![Producer] = "w_notify"]
          /\ UNCHANGED length
  /\ UNCHANGED <<format, duration, volume_, dtor, flags, cond_, immediately, op, ret,
                 drained, waited, reclosed>>

\* Faulty: Write returns without notify_one.
WriteNoNotify ==
  /\ pc[Producer] = "w_notify"
  /\ pc' = [pc EXCEPT ![Producer] = "idle"]
  /\ length' = 0
  /\ UNCHANGED <<format, more, ready_to_play_, flags, mutex_, cond_, immediately, op, ret,
                 hist>>

WriteNotify ==
  /\ pc[Producer] = "w_notify"
  /\ NotifyOne(Producer, "idle")
  /\ length' = 0
  /\ UNCHANGED <<format, more, ready_to_play_, flags, mutex_, immediately, op, ret, hist>>

----------------------------------------------------------------------------
\* Loop(): one iteration is lock, wait, closed_ check, drain, on_written_(),
\* unlock, notify_one, sleep_for.
LoopLock ==
  /\ pc[LoopThread] = "l_lock"
  /\ mutex_ = NoThread
  /\ mutex_' = LoopThread
  /\ pc' = [pc EXCEPT ![LoopThread] = "l_cs"]
  /\ UNCHANGED <<format, more, ready_to_play_, flags, cond_, args, hist>>

LoopWait ==
  /\ pc[LoopThread] = "l_cs"
  /\ ~LoopPred
  /\ mutex_' = NoThread
  /\ cond_' = cond_ \cup {LoopThread}
  /\ pc' = [pc EXCEPT ![LoopThread] = "l_wait"]
  /\ UNCHANGED <<format, more, ready_to_play_, flags, args, hist>>

LoopRelock ==
  /\ pc[LoopThread] = "l_relock"
  /\ mutex_ = NoThread
  /\ mutex_' = LoopThread
  /\ pc' = [pc EXCEPT ![LoopThread] = "l_cs"]
  /\ UNCHANGED <<format, more, ready_to_play_, flags, cond_, args, hist>>

\* Faulty: Loop without the closed_ check.
LoopBodyNoClosedCheck ==
  /\ pc[LoopThread] = "l_cs"
  /\ LoopPred
  /\ ready_to_play_' = ready_to_play_ - buffer_size_
  /\ drained' = drained + buffer_size_
  /\ last' = "drain"
  /\ pc' = [pc EXCEPT ![LoopThread] = "l_callback"]
  /\ UNCHANGED <<format, duration, volume_, dtor, flags, mutex_, cond_, args, written,
                 wret, waited, reclosed>>

\* The wait predicate is true: return if closed (the thread ends, the lock
\* is released), else drain one buffer_size_ and call on_written_ with the
\* lock held.
\* Faulty: Loop that unlocks before on_written_().
LoopBodyUnlocksFirst ==
  /\ pc[LoopThread] = "l_cs"
  /\ LoopPred
  /\ mutex_' = NoThread
  /\ IF closed_
     THEN /\ pc' = [pc EXCEPT ![LoopThread] = "l_done"]
          /\ UNCHANGED <<ready_to_play_, drained, last>>
     ELSE /\ ready_to_play_' = ready_to_play_ - buffer_size_
          /\ drained' = drained + buffer_size_
          /\ last' = "drain"
          /\ pc' = [pc EXCEPT ![LoopThread] = "l_callback"]
  /\ UNCHANGED <<format, duration, volume_, dtor, flags, cond_, args, written, wret,
                 waited, reclosed>>

LoopBody ==
  /\ pc[LoopThread] = "l_cs"
  /\ LoopPred
  /\ IF closed_
     THEN /\ mutex_' = NoThread
          /\ pc' = [pc EXCEPT ![LoopThread] = "l_done"]
          /\ UNCHANGED <<ready_to_play_, drained, last>>
     ELSE /\ ready_to_play_' = ready_to_play_ - buffer_size_
          /\ drained' = drained + buffer_size_
          /\ last' = "drain"
          /\ pc' = [pc EXCEPT ![LoopThread] = "l_callback"]
          /\ UNCHANGED mutex_
  /\ UNCHANGED <<format, duration, volume_, dtor, flags, cond_, args, written, wret,
                 waited, reclosed>>

\* on_written_() returns and the block ends: the lock is released.
LoopCallbackReturn ==
  /\ pc[LoopThread] = "l_callback"
  /\ mutex_' = NoThread
  /\ pc' = [pc EXCEPT ![LoopThread] = "l_notify"]
  /\ UNCHANGED <<format, more, ready_to_play_, flags, cond_, args, hist>>

\* The sleep_for argument: buffer_size_ / bytes_per_sec seconds, kept as the
\* pair of the two ints converted to double; <<1, n, d>> stands for n / d.
SleepDuration ==
  <<1, buffer_size_, sample_rate_ * channel_num_ * bit_depth_in_bytes_>>

LoopNotifyNoSleep ==
  /\ pc[LoopThread] = "l_notify"
  /\ NotifyOne(LoopThread, "l_lock")
  /\ UNCHANGED <<format, more, ready_to_play_, flags, mutex_, args, hist>>

LoopNoNotify ==
  /\ pc[LoopThread] = "l_notify"
  /\ pc' = [pc EXCEPT ![LoopThread] = "l_sleep"]
  /\ duration' = SleepDuration
  /\ UNCHANGED <<format, last, volume_, dtor, ready_to_play_, flags, mutex_, cond_,
                 args, hist>>

\* notify_one, then the duration is computed and sleep_for entered.
LoopNotify ==
  /\ pc[LoopThread] = "l_notify"
  /\ NotifyOne(LoopThread, "l_sleep")
  /\ duration' = SleepDuration
  /\ UNCHANGED <<format, last, volume_, dtor, ready_to_play_, flags, mutex_, args,
                 hist>>

\* sleep_for(buffer_size_ / bytes_per_sec) elapses.
LoopSleep ==
  /\ pc[LoopThread] = "l_sleep"
  /\ pc' = [pc EXCEPT ![LoopThread] = "l_lock"]
  /\ duration' = NoDuration
  /\ UNCHANGED <<format, last, volume_, dtor, ready_to_play_, flags, mutex_, cond_, args, hist>>

----------------------------------------------------------------------------
Next ==
  \/ \E imm \in BOOLEAN : Close(imm)
  \/ CloseBody
  \/ CloseNotify
  \/ Pause
  \/ PauseBody
  \/ PauseNotify
  \/ Play
  \/ PlayBody
  \/ PlayNotify
  \/ IsWritable
  \/ IsWritableReturn
  \/ GetUnplayedBufferSize
  \/ GetUnplayedBufferSizeReturn
  \/ \E len \in 0..MaxLen : Write(len)
  \/ WriteWait
  \/ WriteRelock
  \/ WriteBody
  \/ WriteNotify
  \/ LoopLock
  \/ LoopWait
  \/ LoopRelock
  \/ LoopBody
  \/ LoopCallbackReturn
  \/ LoopNotify
  \/ LoopSleep
  \/ \E t \in Threads : SpuriousWakeup(t)

Spec == Init /\ [][Next]_vars

----------------------------------------------------------------------------
\* Fair scheduling: a thread inside an operation keeps running (weak
\* fairness of its steps), and a thread that keeps finding the mutex free
\* eventually takes it (strong fairness of the lock steps).  Calls of the
\* producer and the controller, and spurious wake-ups, are not fair.
ControllerStep ==
  \/ CloseBody \/ CloseNotify \/ PauseBody \/ PauseNotify \/ PlayBody
  \/ PlayNotify \/ IsWritableReturn \/ GetUnplayedBufferSizeReturn

ProducerStep == WriteWait \/ WriteBody \/ WriteNotify

LoopStep == LoopWait \/ LoopBody \/ LoopCallbackReturn \/ LoopNotify \/ LoopSleep

Fairness ==
  /\ WF_vars(ControllerStep)
  /\ WF_vars(ProducerStep)
  /\ WF_vars(LoopStep)
  /\ SF_vars(WriteRelock)
  /\ SF_vars(LoopLock)
  /\ SF_vars(LoopRelock)

FairSpec == Spec /\ Fairness

----------------------------------------------------------------------------
\* The steps the claims speak of, recognised by the thread's position.
IsWritableReturns == pc[Controller] = "iw_cs" /\ pc'[Controller] = "idle"

GetUnplayedReturns == pc[Controller] = "gu_cs" /\ pc'[Controller] = "idle"

WriteProceeds == pc[Producer] = "w_cs" /\ pc'[Producer] \in {"idle", "w_notify"}

Drains == pc[LoopThread] = "l_cs" /\ pc'[LoopThread] = "l_callback"

InWrite == pc[Producer] \in {"w_cs", "w_wait", "w_relock"}

\* C1: IsWritable() returns (pendingBytes < bufferQuantumBytes OR closed) AND
\* NOT paused, evaluated while the controller holds the mutex, and from the
\* call to the return none of pendingBytes, paused, closed changes.
C1_IsWritable ==
  [][/\ pc[Controller] = "iw_cs" =>
          /\ mutex_ = Controller
          /\ UNCHANGED <<ready_to_play_, paused_, closed_>>
     /\ pc'[Controller] = "iw_cs" => UNCHANGED <<ready_to_play_, paused_, closed_>>
     /\ IsWritableReturns =>
          ret'.writable = ((ready_to_play_ < buffer_size_ \/ closed_) /\ ~paused_)
    ]_vars

\* IsWritable() answered true on a closed player whose buffer is full.
C1_Witness ==
  /\ op = "IsWritable" /\ pc[Controller] = "idle" /\ ret.writable
  /\ closed_ /\ buffer_size_ > 0 /\ ready_to_play_ >= buffer_size_

\* C2: a Write leaves its wait only when the writability predicate holds; on
\* a closed player it returns with pendingBytes unchanged, otherwise it adds
\* exactly length in one step taken with pendingBytes < bufferQuantumBytes
\* and not paused; pendingBytes never grows in any other way.
C2_Write ==
  [][/\ WriteProceeds =>
          /\ mutex_ = Producer
          /\ (ready_to_play_ < buffer_size_ \/ closed_) /\ ~paused_
          /\ IF closed_
             THEN pc'[Producer] = "idle" /\ ready_to_play_' = ready_to_play_
             ELSE /\ pc'[Producer] = "w_notify"
                  /\ ready_to_play_' = ready_to_play_ + length
     /\ (InWrite /\ ~((ready_to_play_ < buffer_size_ \/ closed_) /\ ~paused_)) =>
          (InWrite)'
     /\ (ready_to_play_' > ready_to_play_ \/ written' # written) =>
          /\ WriteProceeds
          /\ ready_to_play_ < buffer_size_ /\ ~paused_ /\ ~closed_
    ]_vars

\* A Write that had to block has added a positive number of bytes.
C2_Witness ==
  /\ pc[Producer] = "w_notify" /\ wret = "added" /\ waited /\ length > 0
  /\ ready_to_play_ >= buffer_size_

\* C3: once closed, every Write in progress returns, the playback thread
\* terminates, it drains no more, and it starts no pacing sleep other than
\* the one that follows a drain made before the Close.
C3_CloseTerminates ==
  /\ closed_ ~> (pc[LoopThread] = "l_done")
  /\ (closed_ /\ pc[Producer] # "idle") ~> (pc[Producer] = "idle")
  /\ [][closed_ => drained' = drained]_vars
  /\ [][(closed_ /\ pc[LoopThread] \notin {"l_notify", "l_sleep"}) =>
          pc'[LoopThread] \notin {"l_callback", "l_notify", "l_sleep"}]_vars

\* The playback thread has ended and a Write that was blocked has returned
\* because of the Close.
C3_Witness ==
  /\ closed_ /\ pc[LoopThread] = "l_done"
  /\ pc[Producer] = "idle" /\ wret = "closed" /\ waited

\* C4: from the step that sets closed on, pendingBytes never changes.
C4_CloseWins == [][closed_' => ready_to_play_' = ready_to_play_]_vars

\* A Write that blocked on a full buffer has returned on the closed player,
\* the buffer still full.
C4_Witness ==
  /\ closed_ /\ pc[Producer] = "idle" /\ wret = "closed" /\ waited
  /\ buffer_size_ > 0 /\ ready_to_play_ >= buffer_size_
  /\ written = drained + ready_to_play_

\* C5: pendingBytes = W - D with D <= W (so pendingBytes >= 0), and
\* GetUnplayedBufferSize() returns that value.
C5_Conservation ==
  /\ [](/\ ready_to_play_ = written - drained
        /\ drained <= written
        /\ ready_to_play_ >= 0)
  /\ [][GetUnplayedReturns => ret'.size = written - drained]_vars

\* After writes and a drain, GetUnplayedBufferSize() returned what is left.
C5_Witness ==
  /\ op = "GetUnplayedBufferSize" /\ pc[Controller] = "idle"
  /\ drained > 0 /\ ret.size > 0 /\ ret.size = ready_to_play_
  /\ written = drained + ret.size

\* C6 as stated: pendingBytes never exceeds bufferQuantumBytes.
C6_Original == ready_to_play_ <= buffer_size_

\* C6 amended: pendingBytes never exceeds bufferQuantumBytes - 1 + L, L the
\* largest length passed to Write, and every drain removes exactly
\* bufferQuantumBytes from a counter holding at least that many bytes.
C6_Bounded ==
  /\ [](ready_to_play_ <= (IF buffer_size_ = 0 THEN 0 ELSE buffer_size_ - 1 + MaxLen))
  /\ [][Drains => /\ ready_to_play_ >= buffer_size_
                  /\ ready_to_play_' = ready_to_play_ - buffer_size_]_vars
  /\ [][ready_to_play_' < ready_to_play_ => Drains]_vars

\* A write of the largest length on a buffer one byte short of the quantum
\* has brought pendingBytes to the bound, above the quantum.
C6_Witness ==
  /\ buffer_size_ > 0
  /\ ready_to_play_ = buffer_size_ - 1 + MaxLen
  /\ ready_to_play_ > buffer_size_

\* C7 as stated: on a paused open player IsWritable() is true while
\* pendingBytes < bufferQuantumBytes, and a Write then completes.
C7_Original ==
  /\ [][(IsWritableReturns /\ paused_ /\ ~closed_ /\ ready_to_play_ < buffer_size_)
          => ret'.writable]_vars
  /\ [][(paused_ /\ ~closed_ /\ ready_to_play_ < buffer_size_
         /\ pc[Producer] = "w_cs" /\ pc'[Producer] # "w_cs")
          => pc'[Producer] = "w_notify"]_vars

\* C7 amended: on an open player IsWritable() is true exactly when the player
\* is not paused and pendingBytes < bufferQuantumBytes (true up to quantum-1,
\* false at the quantum, false while paused); while paused no Write completes
\* and pendingBytes does not change; once the player is not paused with a
\* full quantum pending, pendingBytes decreases by exactly one quantum unless
\* the player is paused again or closed first.
C7_PausedWrite ==
  /\ [][(IsWritableReturns /\ ~closed_)
          => ret'.writable = (~paused_ /\ ready_to_play_ < buffer_size_)]_vars
  /\ [][paused_ => (written' = written /\ ready_to_play_' = ready_to_play_)]_vars
  /\ [][Drains => ready_to_play_' = ready_to_play_ - buffer_size_]_vars
  /\ \A d \in 0..MaxWritten :
       (~paused_ /\ ~closed_ /\ buffer_size_ > 0
        /\ ready_to_play_ >= buffer_size_ /\ drained = d)
         ~> (drained = d + buffer_size_ \/ paused_ \/ closed_)

\* Paused with one byte of room left: IsWritable() answered false and the
\* producer is blocked in Write.
C7_Witness ==
  /\ paused_ /\ ~closed_ /\ buffer_size_ >= 2
  /\ ready_to_play_ = buffer_size_ - 1
  /\ op = "IsWritable" /\ pc[Controller] = "idle" /\ ~ret.writable
  /\ pc[Producer] = "w_wait" /\ Producer \in cond_

State == IF closed_ THEN "Closed" ELSE IF paused_ THEN "Paused" ELSE "Active"

ControllerLeaves(at) == pc[Controller] = at /\ pc'[Controller] # at

\* C8: Pause moves Active to Paused, Play moves Paused to Active, Close moves
\* either to Closed; nothing else changes the state; closed is monotonic;
\* Pause and Play on a closed player change nothing and wake nobody.
C8_StateMachine ==
  [][/\ ControllerLeaves("pause_cs") =>
          State' = (IF State = "Closed" THEN "Closed" ELSE "Paused")
     /\ ControllerLeaves("play_cs") =>
          State' = (IF State = "Closed" THEN "Closed" ELSE "Active")
     /\ ControllerLeaves("close_cs") => State' = "Closed"
     /\ closed_ => closed_'
     /\ (State' # State \/ paused_' # paused_) =>
          \/ ControllerLeaves("pause_cs")
          \/ ControllerLeaves("play_cs")
          \/ ControllerLeaves("close_cs")
     /\ (closed_ /\ (ControllerLeaves("pause_cs") \/ ControllerLeaves("play_cs"))) =>
          /\ pc' = [pc EXCEPT ![Controller] = "idle"]
          /\ UNCHANGED <<ready_to_play_, paused_, closed_, cond_>>
    ]_vars

\* Pause() has returned on a closed player.
C8_Witness == closed_ /\ op = "Pause" /\ pc[Controller] = "idle"

\* C9: Close, with either flag, clears paused, sets closed, keeps
\* pendingBytes and wakes every waiter; a Close of a closed player changes
\* none of them, and finds no waiter left.
C9_CloseIdempotent ==
  /\ [][/\ ControllerLeaves("close_cs") =>
             /\ ~paused_' /\ closed_'
             /\ ready_to_play_' = ready_to_play_
        /\ ControllerLeaves("close_notify") =>
             /\ cond_' = {}
             /\ \A t \in cond_ : pc'[t] = Relock(t)
        /\ (closed_ /\ (ControllerLeaves("close_cs") \/ ControllerLeaves("close_notify"))) =>
             UNCHANGED <<ready_to_play_, paused_, closed_>>
       ]_vars
  /\ []((closed_ /\ pc[Controller] # "close_notify") => cond_ = {})
  /\ []((reclosed /\ pc[Controller] = "close_notify") => cond_ = {})

\* Close(true) has run on an already closed player that holds pending bytes.
C9_Witness ==
  /\ reclosed /\ pc[Controller] = "close_notify" /\ immediately
  /\ ready_to_play_ > 0

\* A notification that will reach waiter t: a notify_all about to be issued
\* by the controller, or the other thread between its change of the state
\* and its notify_one (t being then the only possible waiter).
NotifyPendingFor(t) ==
  \/ pc[Controller] \in {"close_notify", "pause_notify", "play_notify"}
  \/ \E u \in {Producer, LoopThread} \ {t} :
       pc[u] \in {"w_notify", "l_callback", "l_notify"}

WaitPred(t) ==
  IF t = Producer
  THEN (ready_to_play_ < buffer_size_ \/ closed_) /\ ~paused_
  ELSE (ready_to_play_ >= buffer_size_ \/ closed_) /\ ~paused_

\* C10: no thread is in the wait set with its predicate true and no
\* notification on its way; the producer and the playback thread are never
\* both in the wait set of a player neither paused nor closed unless a
\* notification is on its way.
C10_NoMissedWakeup ==
  /\ cond_ \subseteq {Producer, LoopThread}
  /\ \A t \in cond_ : WaitPred(t) => NotifyPendingFor(t)
  /\ (cond_ = {Producer, LoopThread} /\ ~paused_ /\ ~closed_) =>
       pc[Controller] \in {"close_notify", "pause_notify", "play_notify"}

\* Both threads blocked during a pause, a full quantum pending, and Play's
\* notify_all about to wake them.
C10_Witness ==
  /\ cond_ = {Producer, LoopThread} /\ pc[Controller] = "play_notify"
  /\ ~paused_ /\ ~closed_ /\ buffer_size_ > 0 /\ ready_to_play_ >= buffer_size_

----------------------------------------------------------------------------
WriteAdds == pc[Producer] = "w_cs" /\ pc'[Producer] = "w_notify"

\* C11 as stated: a completed write is never directly followed by another
\* completed write, nor a drain by another drain, and the first is a write.
C11_Original ==
  /\ [][WriteAdds => last # "write"]_vars
  /\ [][Drains => last = "write"]_vars

\* C11 amended: writes and drains are serialised by the counter without
\* alternating: every change of pendingBytes is one completed write, made
\* with pendingBytes < bufferQuantumBytes, or one drain, made with
\* pendingBytes >= bufferQuantumBytes; so after a write or drain that leaves
\* less than a quantum the next change is a write, and after one that leaves
\* at least a quantum the next change is a drain.
C11_Serialised ==
  [][/\ WriteAdds => (ready_to_play_ < buffer_size_ /\ last' = "write")
     /\ Drains => (ready_to_play_ >= buffer_size_ /\ last' = "drain")
     /\ (last' # last \/ ready_to_play_' # ready_to_play_) => (WriteAdds \/ Drains)
     /\ (WriteAdds /\ last = "write") => ready_to_play_ < buffer_size_
     /\ (Drains /\ last = "drain") => ready_to_play_ >= buffer_size_
    ]_vars

\* Two writes in a row (the second has just completed below the quantum,
\* nothing drained yet, both of positive length).
C11_Witness ==
  /\ last = "write" /\ pc[Producer] = "w_notify" /\ drained = 0
  /\ length > 0 /\ written > length
  /\ ready_to_play_ < buffer_size_

----------------------------------------------------------------------------
\* GetVolume() and SetVolume(volume) take no lock.  Here the producer thread
\* sets the volume and the controller reads it; "sv" and "gv" are the
\* positions inside the two functions.
SetVolume(volume) ==
  /\ pc[Producer] = "idle"
  /\ volume_' = volume
  /\ pc' = [pc EXCEPT ![Producer] = "sv"]
  /\ UNCHANGED <<format, last, duration, dtor, ready_to_play_, flags, mutex_, cond_,
                 args, hist>>

SetVolumeReturn ==
  /\ pc[Producer] = "sv"
  /\ pc' = [pc EXCEPT ![Producer] = "idle"]
  /\ UNCHANGED <<format, more, ready_to_play_, flags, mutex_, cond_, args, hist>>

GetVolume ==
  /\ pc[Controller] = "idle"
  /\ op' = "GetVolume"
  /\ ret' = NoRet
  /\ pc' = [pc EXCEPT ![Controller] = "gv"]
  /\ UNCHANGED <<format, more, ready_to_play_, flags, mutex_, cond_, length,
                 immediately, hist>>

\* The value read is volume_, unless SetVolume runs at the same time: that
\* is a data race, and the read may give any value.
GetVolumeReturn ==
  /\ pc[Controller] = "gv"
  /\ \E v \in (IF pc[Producer] = "sv" THEN Volumes \cup {DefaultVolume} ELSE {volume_}) :
       ret' = [ret EXCEPT !.volume = v]
  /\ pc' = [pc EXCEPT ![Controller] = "idle"]
  /\ UNCHANGED <<format, more, ready_to_play_, flags, mutex_, cond_, length,
                 immediately, op, hist>>

NextVolume ==
  \/ Next
  \/ \E volume \in Volumes : SetVolume(volume)
  \/ SetVolumeReturn
  \/ GetVolume
  \/ GetVolumeReturn

VolumeSpec == Init /\ [][NextVolume]_vars

\* The positions at which a thread reads or writes pendingBytes, paused,
\* closed or volume.
Accessing(t) ==
  pc[t] \in {"close_cs", "pause_cs", "play_cs", "iw_cs", "gu_cs", "gv",
             "w_cs", "sv", "l_cs", "l_callback"}

\* C12 as stated: a thread that reads or writes pendingBytes, paused, closed
\* or volume holds the player's mutex, so no two threads access them at the
\* same time.
C12_AllAccessesLocked ==
  /\ \A t \in Threads : Accessing(t) => mutex_ = t
  /\ \A t, u \in Threads : (Accessing(t) /\ Accessing(u)) => t = u

----------------------------------------------------------------------------
\* on_written_() is entered.
CallbackInvoked == pc[LoopThread] # "l_callback" /\ pc'[LoopThread] = "l_callback"

\* C13: a drain is one step under the mutex, taken with pendingBytes >=
\* bufferQuantumBytes, not paused and not closed; it subtracts exactly
\* bufferQuantumBytes and enters on_written once; pendingBytes decreases and
\* on_written is entered by a drain only, so callbacks and drained quanta
\* correspond one to one; the callback runs unpaused and unclosed, and
\* returns to the notify, never to another drain.
C13_Drain ==
  /\ [][/\ Drains => /\ ready_to_play_ >= buffer_size_ /\ ~paused_ /\ ~closed_
                     /\ mutex_ = LoopThread /\ mutex_' = LoopThread
                     /\ ready_to_play_' = ready_to_play_ - buffer_size_
                     /\ drained' = drained + buffer_size_
                     /\ CallbackInvoked
                     /\ UNCHANGED <<flags, written>>
        /\ (ready_to_play_' < ready_to_play_ \/ drained' # drained \/ CallbackInvoked)
             => Drains
        /\ (paused_ \/ closed_) => (~Drains /\ ~CallbackInvoked)
        /\ (pc[LoopThread] = "l_callback" /\ pc'[LoopThread] # "l_callback")
             => pc'[LoopThread] = "l_notify"
       ]_vars
  /\ [](pc[LoopThread] = "l_callback" => (~paused_ /\ ~closed_ /\ mutex_ = LoopThread))

\* A drain that left a remainder is in its callback.
C13_Witness ==
  /\ pc[LoopThread] = "l_callback"
  /\ buffer_size_ > 0
  /\ drained = buffer_size_
  /\ ready_to_play_ > 0
  /\ ~paused_ /\ ~closed_

----------------------------------------------------------------------------
\* C14: while pendingBytes has reached the quantum on an open player,
\* IsWritable() answers false and pendingBytes changes by a drain only; a
\* full, open, unpaused buffer of exactly one quantum is eventually drained
\* to 0 (unless the player is paused or closed first), IsWritable() on the
\* open, unpaused, drained buffer answers true, and a producer blocked in
\* Write on an open, unpaused player eventually proceeds (unless the player
\* is paused or closed first).
C14_Backpressure ==
  /\ [][(IsWritableReturns /\ ~closed_ /\ ready_to_play_ >= buffer_size_)
          => ~ret'.writable]_vars
  /\ [][(IsWritableReturns /\ ~closed_ /\ ~paused_ /\ ready_to_play_ < buffer_size_)
          => ret'.writable]_vars
  /\ [][(ready_to_play_ = buffer_size_ /\ ready_to_play_' # ready_to_play_)
          => (Drains /\ ready_to_play_' = 0)]_vars
  /\ (~paused_ /\ ~closed_ /\ buffer_size_ > 0 /\ ready_to_play_ = buffer_size_)
       ~> (ready_to_play_ = 0 \/ paused_ \/ closed_)
  /\ (InWrite /\ ~paused_ /\ ~closed_ /\ buffer_size_ > 0)
       ~> (~InWrite \/ paused_ \/ closed_)

\* One write of exactly the quantum was made and not yet drained; the
\* producer is blocked in its second Write and IsWritable() answered false.
C14_Witness ==
  /\ buffer_size_ > 0 /\ ~paused_ /\ ~closed_
  /\ written = buffer_size_ /\ ready_to_play_ = buffer_size_ /\ drained = 0
  /\ pc[Producer] = "w_wait" /\ Producer \in cond_
  /\ pc[Controller] = "idle" /\ op = "IsWritable" /\ ~ret.writable

----------------------------------------------------------------------------
\* The playback thread moves from one position to another.
LoopMoves(from, to) == pc[LoopThread] = from /\ pc'[LoopThread] = to

\* C15: after a drain the loop goes callback, notify, sleep, lock and only
\* then evaluates its wait predicate again, and the lock position is entered
\* from the sleep only, so one completed sleep separates two drains whatever
\* pendingBytes is; the sleep lasts buffer_size_ / bytes_per_sec; the loop
\* does not hold the mutex while it sleeps, and with the mutex free Pause,
\* Play, Close, IsWritable and Write can be entered during the sleep.
C15_Pacing ==
  /\ [][pc'[LoopThread] # pc[LoopThread] =>
          \/ LoopMoves("l_lock", "l_cs")
          \/ LoopMoves("l_cs", "l_wait")
          \/ LoopMoves("l_wait", "l_relock")
          \/ LoopMoves("l_relock", "l_cs")
          \/ LoopMoves("l_cs", "l_done")
          \/ Drains
          \/ LoopMoves("l_callback", "l_notify")
          \/ LoopMoves("l_notify", "l_sleep")
          \/ LoopMoves("l_sleep", "l_lock")]_vars
  /\ [][LoopMoves("l_sleep", "l_lock") =>
          (ready_to_play_' = ready_to_play_ /\ drained' = drained)]_vars
  /\ [](pc[LoopThread] \in {"l_notify", "l_sleep", "l_lock"} => mutex_ # LoopThread)
  /\ [](pc[LoopThread] = "l_sleep" =>
          /\ duration = <<1, buffer_size_,
                          sample_rate_ * channel_num_ * bit_depth_in_bytes_>>
          /\ (mutex_ = NoThread /\ pc[Controller] = "idle") =>
               /\ ENABLED Pause /\ ENABLED Play /\ ENABLED IsWritable
               /\ ENABLED Close(TRUE)
          /\ (mutex_ = NoThread /\ pc[Producer] = "idle" /\ written < MaxWritten) =>
               ENABLED Write(1))

\* The loop sleeps 2/5 s after a drain while the producer is inside Write
\* with the mutex.
C15_Witness ==
  /\ pc[LoopThread] = "l_sleep"
  /\ duration = <<1, 2, 5>>
  /\ drained > 0
  /\ pc[Producer] = "w_cs" /\ mutex_ = Producer

----------------------------------------------------------------------------
\* C16: closed implies not paused in every reachable state, and once closed
\* the player stays closed and unpaused; on a closed player both wait
\* predicates are true, no thread enters a wait, and the only state with a
\* thread still in the wait set is the one between Close's unlock and its
\* notify_all.
C16_ClosedNotPaused ==
  /\ [](closed_ => (~paused_ /\ IsWritableImpl /\ LoopPred))
  /\ [][closed_ => (closed_' /\ ~paused_' /\ cond_' \subseteq cond_)]_vars
  /\ []((closed_ /\ cond_ # {}) => pc[Controller] = "close_notify")

\* Close has just cleared paused_ while the producer waits on a buffer that
\* has room: it was blocked by Pause, and notify_all is about to release it.
C16_Witness ==
  /\ closed_ /\ ~paused_ /\ op = "Close" /\ pc[Controller] = "close_notify"
  /\ buffer_size_ > 0 /\ ready_to_play_ < buffer_size_
  /\ Producer \in cond_ /\ pc[Producer] = "w_wait"

----------------------------------------------------------------------------
\* C17: a write is added only while pendingBytes < bufferQuantumBytes,
\* whatever its length (0..MaxLen, not compared with the room left), and
\* pendingBytes grows by a completed write only; so pendingBytes <=
\* bufferQuantumBytes - 1 + MaxLen in every reachable state, and from the
\* moment pendingBytes has reached the quantum no write is added until a
\* drain.
C17_WriteBound ==
  /\ [][WriteAdds => /\ ready_to_play_ < buffer_size_
                     /\ length \in 0..MaxLen
                     /\ ready_to_play_' = ready_to_play_ + length
                     /\ ready_to_play_' <= buffer_size_ - 1 + length]_vars
  /\ [][ready_to_play_' > ready_to_play_ => WriteAdds]_vars
  /\ [][ready_to_play_ >= buffer_size_ =>
          (ready_to_play_' = ready_to_play_ \/ Drains)]_vars
  /\ [](ready_to_play_ <= buffer_size_ - 1 + MaxLen)

\* A write longer than the room left was admitted with one byte of room:
\* pendingBytes is at the bound and the producer is about to notify.
C17_Witness ==
  /\ pc[Producer] = "w_notify" /\ length = MaxLen
  /\ buffer_size_ > 0
  /\ ready_to_play_ = buffer_size_ - 1 + MaxLen
  /\ written = ready_to_play_ + drained

----------------------------------------------------------------------------
\* ~AudioPlayer(): thread_ is joinable from construction on, so the
\* destructor enters thread_.join().  It runs in its owner's context, which
\* dtor stands for: "none" before, "join" inside join(), "done" once the
\* body has returned.  The destruction of the members after the body is not
\* modelled.
Destroy ==
  /\ dtor = "none"
  /\ dtor' = "join"
  /\ UNCHANGED <<format, last, duration, volume_, ready_to_play_, flags, mutex_,
                 cond_, pc, args, hist>>

\* Faulty: a destructor that does not wait for the playback thread.
JoinReturnsNoWait ==
  /\ dtor = "join"
  /\ dtor' = "done"
  /\ UNCHANGED <<format, last, duration, volume_, ready_to_play_, flags, mutex_,
                 cond_, pc, args, hist>>

\* join() returns once Loop has returned.
JoinReturns ==
  /\ dtor = "join"
  /\ pc[LoopThread] = "l_done"
  /\ dtor' = "done"
  /\ UNCHANGED <<format, last, duration, volume_, ready_to_play_, flags, mutex_,
                 cond_, pc, args, hist>>

NextLife ==
  \/ Next
  \/ Destroy
  \/ JoinReturns

LifeSpec == Init /\ [][NextLife]_vars

LifeFairSpec == LifeSpec /\ Fairness /\ WF_vars(JoinReturns)

\* C18: the playback thread has returned only if the player is closed; the
\* destructor changes nothing but its own position and has completed only
\* if the player is closed and the thread has returned, so while the player
\* is not closed the join stays blocked; and a join on a closed player
\* eventually returns, whether Close came before or during it.
C18_Destruction ==
  /\ [](pc[LoopThread] = "l_done" => closed_)
  /\ [](dtor = "done" => (closed_ /\ pc[LoopThread] = "l_done"))
  /\ [][dtor' # dtor =>
          /\ UNCHANGED <<ready_to_play_, flags, mutex_, cond_, pc>>
          /\ <<dtor, dtor'>> \in {<<"none", "join">>, <<"join", "done">>}]_vars
  /\ [][(dtor = "join" /\ ~closed_') => dtor' = "join"]_vars
  /\ (dtor = "join" /\ closed_) ~> (dtor = "done")

\* The destructor has returned on a player that was closed while the loop
\* waited for data.
C18_Witness ==
  /\ dtor = "done" /\ closed_ /\ pc[LoopThread] = "l_done"
  /\ buffer_size_ > 0 /\ ready_to_play_ < buffer_size_

----------------------------------------------------------------------------
\* on_written_ is any std::function<void()>.  Here it calls a locking
\* operation of its own player: the playback thread, which owns mutex_,
\* calls mutex_.lock() again.
CallbackReenters ==
  /\ pc[LoopThread] = "l_callback"
  /\ pc' = [pc EXCEPT ![LoopThread] = "l_reenter"]
  /\ UNCHANGED <<format, more, ready_to_play_, flags, mutex_, cond_, args, hist>>

\* Locking a std::mutex the thread owns is undefined.  Either the call never
\* returns (no step leaves "l_reenter"), or the library detects the relock
\* and throws std::system_error, which leaves Loop and the thread function
\* and ends the program in std::terminate ("l_abort").
ReenterThrows ==
  /\ pc[LoopThread] = "l_reenter"
  /\ pc' = [pc EXCEPT ![LoopThread] = "l_abort"]
  /\ UNCHANGED <<format, more, ready_to_play_, flags, mutex_, cond_, args, hist>>

NextReentrant ==
  \/ (pc[LoopThread] # "l_abort" /\ Next)
  \/ CallbackReenters
  \/ ReenterThrows

ReentrantSpec == Init /\ [][NextReentrant]_vars

\* The callback is running, or stuck in a call it made.
InCallback == pc[LoopThread] \in {"l_callback", "l_reenter", "l_abort"}

\* C19 as stated: the callback runs with the mutex held and before the
\* notify, during a callback no other operation makes any step, and a
\* callback that calls an operation of its player never returns.
C19_Original ==
  /\ [](InCallback => mutex_ = LoopThread)
  /\ [][InCallback =>
          (pc'[Producer] = pc[Producer] /\ pc'[Controller] = pc[Controller])]_vars
  /\ [][pc[LoopThread] \in {"l_reenter", "l_abort"} => InCallback']_vars

\* C19, amended: the callback runs on the playback thread with the mutex
\* held, after the subtraction and before the notify; while it runs no other
\* thread is in or enters a critical section, no call of Write, IsWritable,
\* GetUnplayedBufferSize, Pause, Play or Close gets the mutex, and
\* pendingBytes, paused and closed do not change; the only steps of other
\* operations are the notify and return of one that had already unlocked;
\* and once the callback calls a locking operation the playback thread never
\* leaves the callback and never releases the mutex.
C19_CallbackUnderLock ==
  /\ [](InCallback =>
          /\ mutex_ = LoopThread
          /\ \A t \in {Producer, Controller} : ~Accessing(t)
          /\ ~ENABLED Write(1) /\ ~ENABLED WriteRelock
          /\ ~ENABLED IsWritable /\ ~ENABLED GetUnplayedBufferSize
          /\ ~ENABLED Pause /\ ~ENABLED Play
          /\ ~ENABLED Close(TRUE) /\ ~ENABLED Close(FALSE))
  /\ [][InCallback =>
          /\ UNCHANGED <<ready_to_play_, flags, written, drained>>
          /\ \A t \in {Producer, Controller} :
               pc'[t] # pc[t] =>
                 \/ pc[t] \in {"w_notify", "close_notify", "pause_notify",
                               "play_notify"} /\ pc'[t] = "idle"
                 \/ pc[t] = "w_wait" /\ pc'[t] = "w_relock"]_vars
  /\ [][Drains => (CallbackInvoked /\ cond_' = cond_)]_vars
  /\ [][pc'[LoopThread] # pc[LoopThread] /\ pc[LoopThread] = "l_callback" =>
          pc'[LoopThread] \in {"l_notify", "l_reenter"}]_vars
  /\ [][pc[LoopThread] \in {"l_reenter", "l_abort"} =>
          (pc'[LoopThread] \in {"l_reenter", "l_abort"} /\ mutex_' = LoopThread)]_vars

\* The callback has called an operation of its own player; the producer,
\* woken from its wait, cannot get the mutex back.
C19_Witness ==
  /\ pc[LoopThread] = "l_reenter" /\ mutex_ = LoopThread
  /\ pc[Producer] = "w_relock"
  /\ ~closed_

----------------------------------------------------------------------------
\* C20: buffer_size_ is 0 exactly for a player created before OpenAudio or
\* with sample_rate * channel_num * bit_depth_in_bytes below 2.  On such a
\* player nothing is ever written, IsWritableImpl is false and IsWritable()
\* answers false whenever the player is not closed, a Write proceeds only
\* on a closed player (without adding), the loop's predicate is true
\* whenever the player is not paused, each drain subtracts 0 and enters
\* on_written, and an open, unpaused player's loop enters on_written again
\* and again.
C20_ZeroQuantum ==
  /\ [](buffer_size_ = 0 <=>
          sample_rate_ * channel_num_ * bit_depth_in_bytes_ < 2)
  /\ [](buffer_size_ = 0 =>
          /\ written = 0 /\ ready_to_play_ = 0 /\ drained = 0
          /\ ~closed_ => ~IsWritableImpl
          /\ ~paused_ => LoopPred)
  /\ [][buffer_size_ = 0 =>
          /\ (IsWritableReturns /\ ~closed_) => ~ret'.writable
          /\ WriteProceeds => (closed_ /\ ~WriteAdds /\ wret' = "closed")
          /\ Drains => (ready_to_play_' = 0 /\ CallbackInvoked /\ written = 0)
          /\ (pc[LoopThread] = "l_cs" /\ ~paused_ /\ ~closed_
              /\ pc'[LoopThread] # "l_cs") => Drains]_vars
  /\ (buffer_size_ = 0 /\ ~paused_ /\ ~closed_ /\ pc[LoopThread] = "l_notify")
       ~> (pc[LoopThread] = "l_callback" \/ paused_ \/ closed_)

\* A player created before OpenAudio: its loop is in on_written after a
\* zero-byte drain, the producer is blocked in Write with nothing written,
\* and IsWritable() answered false.
C20_Witness ==
  /\ sample_rate_ = 0 /\ buffer_size_ = 0
  /\ pc[LoopThread] = "l_callback" /\ last = "drain"
  /\ written = 0 /\ ready_to_play_ = 0
  /\ pc[Producer] = "w_wait" /\ length > 0
  /\ op = "IsWritable" /\ ~ret.writable /\ pc[Controller] = "idle"
  /\ ~paused_ /\ ~closed_

====
